---------------------------- MODULE Spec2Model ----------------------------
(***************************************************************************)
(* Personality Mix Analyzer (src/app.py): the trait pipeline                *)
(* (predict_personality, generate_explanations, suggest_roles,             *)
(* generate_tip, map_to_mbti), the PDF report writer, the history.csv      *)
(* store and the Streamlit script that drives them.                        *)
(*                                                                         *)
(* Text is modelled as a sequence of Unicode code points, so that          *)
(* str.strip(), f-string formatting and encode('latin-1', 'ignore') are    *)
(* computed and not assumed.  A Python dict is a sequence of [k, v] pairs  *)
(* in insertion order.                                                     *)
(***************************************************************************)
EXTENDS Integers, Sequences, FiniteSets, TLC

(***************************************************************************)
(* Bounds of the model.                                                    *)
(***************************************************************************)
\* Number of "Analyze Personality" clicks that pass validation in one run.
MaxRuns == 3
\* Half-width of the score windows sampled around the two thresholds.
Spread == 0

(***************************************************************************)
(* Program constants.                                                      *)
(***************************************************************************)
\* map_to_mbti: a score strictly above this picks the first letter of an axis.
MbtiThreshold == 50
\* suggest_roles: a dominant Neuroticism strictly below this is "low".
LowNeuroticism == 40
\* Largest code point the latin-1 codec can encode.
Latin1Max == 255

(***************************************************************************)
(* Text                                                                    *)
(***************************************************************************)
\* Code points for which str.isspace() holds; str.strip() removes them.
Whitespace ==
    (9..13) \cup (28..32) \cup {133, 160, 5760} \cup (8192..8202)
        \cup {8232, 8233, 8239, 8287, 12288}

RECURSIVE LStrip(_)
LStrip(s) ==
    IF s # <<>> /\ Head(s) \in Whitespace THEN LStrip(Tail(s)) ELSE s

RECURSIVE RStrip(_)
RStrip(s) ==
    IF s # <<>> /\ s[Len(s)] \in Whitespace
    THEN RStrip(SubSeq(s, 1, Len(s) - 1))
    ELSE s

\* str.strip()
strip(s) == RStrip(LStrip(s))

\* str(n) / f"{n}" for a non-negative int.
RECURSIVE Str(_)
Str(n) ==
    IF n < 10 THEN <<48 + n>> ELSE Str(n \div 10) \o <<48 + (n % 10)>>

\* int(text) as pandas.read_csv parses a numeric cell.
RECURSIVE ParseInt(_)
ParseInt(s) ==
    IF s = <<>> THEN 0
    ELSE 10 * ParseInt(SubSeq(s, 1, Len(s) - 1)) + (s[Len(s)] - 48)

IsLatin1(s) == \A i \in 1..Len(s) : s[i] <= Latin1Max

\* s.encode('latin-1', 'ignore').decode('latin-1')
RECURSIVE EncodeLatin1Ignore(_)
EncodeLatin1Ignore(s) ==
    IF s = <<>> THEN <<>>
    ELSE IF Head(s) <= Latin1Max
         THEN <<Head(s)>> \o EncodeLatin1Ignore(Tail(s))
         ELSE EncodeLatin1Ignore(Tail(s))

\* Sequence helpers.
Reverse(s) == [i \in 1..Len(s) |-> s[Len(s) + 1 - i]]

InsertAt(s, i, e) == SubSeq(s, 1, i - 1) \o <<e>> \o SubSeq(s, i, Len(s))

(***************************************************************************)
(* Trait vectors                                                           *)
(***************************************************************************)
\* The fixed trait set in declared order (keys of predict_personality).
TraitOrder ==
    <<"Openness", "Conscientiousness", "Extraversion", "Agreeableness", "Neuroticism">>

TraitNames == {TraitOrder[i] : i \in 1..Len(TraitOrder)}

\* dict: keys() and d[key]
Keys(d) == [i \in 1..Len(d) |-> d[i].k]

Get(d, key) == d[CHOOSE i \in 1..Len(d) : d[i].k = key].v

\* predict_personality(text): the stub scorer ignores its argument.
predict_personality(text) ==
    << [k |-> "Openness", v |-> 70],
       [k |-> "Conscientiousness", v |-> 65],
       [k |-> "Extraversion", v |-> 55],
       [k |-> "Agreeableness", v |-> 80],
       [k |-> "Neuroticism", v |-> 35] >>

(***************************************************************************)
(* MBTI mapping                                                            *)
(***************************************************************************)
\* Mutant: the comparisons are >= instead of >.
map_to_mbti_at_least(traits) ==
    LET E == IF Get(traits, "Extraversion") >= MbtiThreshold THEN "E" ELSE "I"
        N == IF Get(traits, "Openness") >= MbtiThreshold THEN "N" ELSE "S"
        F == IF Get(traits, "Agreeableness") >= MbtiThreshold THEN "F" ELSE "T"
        J == IF Get(traits, "Conscientiousness") >= MbtiThreshold THEN "J" ELSE "P"
    IN  <<E, N, F, J>>

\* Mutant: the two letters of every axis are exchanged.
map_to_mbti_exchanged(traits) ==
    LET E == IF Get(traits, "Extraversion") > MbtiThreshold THEN "I" ELSE "E"
        N == IF Get(traits, "Openness") > MbtiThreshold THEN "S" ELSE "N"
        F == IF Get(traits, "Agreeableness") > MbtiThreshold THEN "T" ELSE "F"
        J == IF Get(traits, "Conscientiousness") > MbtiThreshold THEN "P" ELSE "J"
    IN  <<E, N, F, J>>

\* The code is the 4-tuple of letters E + N + F + J.
map_to_mbti(traits) ==
    LET E == IF Get(traits, "Extraversion") > MbtiThreshold THEN "E" ELSE "I"
        N == IF Get(traits, "Openness") > MbtiThreshold THEN "N" ELSE "S"
        F == IF Get(traits, "Agreeableness") > MbtiThreshold THEN "F" ELSE "T"
        J == IF Get(traits, "Conscientiousness") > MbtiThreshold THEN "J" ELSE "P"
    IN  <<E, N, F, J>>

\* mbti_stats.get(mbti, "N/A"), as the text an f-string makes of the value.
mbti_stats(mbti) ==
    CASE mbti = <<"I", "N", "F", "J">> -> <<49, 46, 53>>  \* 1.5
      [] mbti = <<"E", "N", "F", "J">> -> <<50, 46, 53>>  \* 2.5
      [] mbti = <<"I", "N", "T", "J">> -> <<50>>  \* 2
      [] mbti = <<"E", "N", "T", "J">> -> <<50>>  \* 2
      [] mbti = <<"I", "N", "F", "P">> -> <<52, 46, 53>>  \* 4.5
      [] mbti = <<"E", "N", "F", "P">> -> <<56>>  \* 8
      [] mbti = <<"I", "S", "T", "J">> -> <<49, 50>>  \* 12
      [] mbti = <<"E", "S", "T", "J">> -> <<57>>  \* 9
      [] mbti = <<"I", "S", "F", "J">> -> <<49, 51>>  \* 13
      [] mbti = <<"E", "S", "F", "J">> -> <<49, 50>>  \* 12
      [] mbti = <<"I", "S", "T", "P">> -> <<53>>  \* 5
      [] mbti = <<"E", "S", "T", "P">> -> <<52, 46, 53>>  \* 4.5
      [] mbti = <<"I", "S", "F", "P">> -> <<57>>  \* 9
      [] mbti = <<"E", "S", "F", "P">> -> <<56, 46, 53>>  \* 8.5
      [] mbti = <<"I", "N", "T", "P">> -> <<51>>  \* 3
      [] mbti = <<"E", "N", "T", "P">> -> <<52>>  \* 4
      [] OTHER -> <<78, 47, 65>>  \* 'N/A'

\* famous_mbti.get(mbti, "Unknown")
famous_mbti(mbti) ==
    CASE mbti = <<"I", "N", "F", "J">> -> \* 'Oprah Winfrey'
         <<79, 112, 114, 97, 104, 32, 87, 105, 110, 102, 114, 101, 121>>
      [] mbti = <<"E", "N", "F", "J">> -> \* 'Barack Obama'
         <<66, 97, 114, 97, 99, 107, 32, 79, 98, 97, 109, 97>>
      [] mbti = <<"I", "N", "T", "J">> -> \* 'Elon Musk'
         <<69, 108, 111, 110, 32, 77, 117, 115, 107>>
      [] mbti = <<"E", "N", "T", "J">> -> \* 'Steve Jobs'
         <<83, 116, 101, 118, 101, 32, 74, 111, 98, 115>>
      [] mbti = <<"I", "N", "F", "P">> -> \* 'Shakespeare'
         <<83, 104, 97, 107, 101, 115, 112, 101, 97, 114, 101>>
      [] mbti = <<"E", "N", "F", "P">> -> \* 'Robin Williams'
         <<82, 111, 98, 105, 110, 32, 87, 105, 108, 108, 105, 97, 109, 115>>
      [] mbti = <<"I", "S", "T", "J">> -> \* 'Natalie Portman'
         <<78, 97, 116, 97, 108, 105, 101, 32, 80, 111, 114, 116, 109, 97, 110>>
      [] mbti = <<"E", "S", "T", "J">> -> \* 'Judge Judy'
         <<74, 117, 100, 103, 101, 32, 74, 117, 100, 121>>
      [] mbti = <<"I", "S", "F", "J">> -> \* 'Mother Teresa'
         <<77, 111, 116, 104, 101, 114, 32, 84, 101, 114, 101, 115, 97>>
      [] mbti = <<"E", "S", "F", "J">> -> \* 'Taylor Swift'
         <<84, 97, 121, 108, 111, 114, 32, 83, 119, 105, 102, 116>>
      [] mbti = <<"I", "S", "T", "P">> -> \* 'Clint Eastwood'
         <<67, 108, 105, 110, 116, 32, 69, 97, 115, 116, 119, 111, 111, 100>>
      [] mbti = <<"E", "S", "T", "P">> -> \* 'Madonna'
         <<77, 97, 100, 111, 110, 110, 97>>
      [] mbti = <<"I", "S", "F", "P">> -> \* 'Britney Spears'
         <<66, 114, 105, 116, 110, 101, 121, 32, 83, 112, 101, 97, 114, 115>>
      [] mbti = <<"E", "S", "F", "P">> -> \* 'Elton John'
         <<69, 108, 116, 111, 110, 32, 74, 111, 104, 110>>
      [] mbti = <<"I", "N", "T", "P">> -> \* 'Albert Einstein'
         <<65, 108, 98, 101, 114, 116, 32, 69, 105, 110, 115, 116, 101, 105, 110>>
      [] mbti = <<"E", "N", "T", "P">> -> \* 'Tom Hanks'
         <<84, 111, 109, 32, 72, 97, 110, 107, 115>>
      [] OTHER -> \* 'Unknown'
         <<85, 110, 107, 110, 111, 119, 110>>

(***************************************************************************)
(* Explanation generator                                                   *)
(***************************************************************************)
\* The f-string of each branch: the literal before and after {value}.
MsgTemplate(lang, trait) ==
    CASE lang = "English" /\ trait = "Openness" ->
         \* line 93: 'You are ' value '% open to new experiences.'
         [pre  |-> <<89, 111, 117, 32, 97, 114, 101, 32>>,
          post |-> <<37, 32, 111, 112, 101, 110, 32, 116, 111, 32, 110, 101, 119, 32, 101,
                   120, 112, 101, 114, 105, 101, 110, 99, 101, 115, 46>>]
      [] lang = "English" /\ trait = "Conscientiousness" ->
         \* line 95: 'You show ' value '% responsibility and discipline.'
         [pre  |-> <<89, 111, 117, 32, 115, 104, 111, 119, 32>>,
          post |-> <<37, 32, 114, 101, 115, 112, 111, 110, 115, 105, 98, 105, 108, 105,
                   116, 121, 32, 97, 110, 100, 32, 100, 105, 115, 99, 105, 112, 108, 105,
                   110, 101, 46>>]
      [] lang = "English" /\ trait = "Extraversion" ->
         \* line 97: 'You exhibit ' value '% sociability.'
         [pre  |-> <<89, 111, 117, 32, 101, 120, 104, 105, 98, 105, 116, 32>>,
          post |-> <<37, 32, 115, 111, 99, 105, 97, 98, 105, 108, 105, 116, 121, 46>>]
      [] lang = "English" /\ trait = "Agreeableness" ->
         \* line 99: 'You reflect ' value '% kindness and cooperation.'
         [pre  |-> <<89, 111, 117, 32, 114, 101, 102, 108, 101, 99, 116, 32>>,
          post |-> <<37, 32, 107, 105, 110, 100, 110, 101, 115, 115, 32, 97, 110, 100, 32,
                   99, 111, 111, 112, 101, 114, 97, 116, 105, 111, 110, 46>>]
      [] lang = "English" /\ trait = "Neuroticism" ->
         \* line 101: 'You have ' value '% emotional instability.'
         [pre  |-> <<89, 111, 117, 32, 104, 97, 118, 101, 32>>,
          post |-> <<37, 32, 101, 109, 111, 116, 105, 111, 110, 97, 108, 32, 105, 110, 115,
                   116, 97, 98, 105, 108, 105, 116, 121, 46>>]
      [] lang # "English" /\ trait = "Openness" ->
         \* line 104: (Devanagari text) value (Devanagari text)
         [pre  |-> <<2310, 2346, 32, 2344, 2312, 32, 2330, 2368, 2332, 2364, 2379, 2306,
                   32, 2325, 2375, 32, 2354, 2367, 2319, 32>>,
          post |-> <<37, 32, 2326, 2369, 2354, 2375, 32, 2357, 2367, 2330, 2366, 2352,
                   2379, 2306, 32, 2357, 2366, 2354, 2375, 32, 2361, 2376, 2306, 2404>>]
      [] lang # "English" /\ trait = "Conscientiousness" ->
         \* line 106: (Devanagari text) value (Devanagari text)
         [pre  |-> <<2310, 2346, 32>>,
          post |-> <<37, 32, 2332, 2367, 2350, 2381, 2350, 2375, 2342, 2366, 2352, 32,
                   2324, 2352, 32, 2309, 2344, 2369, 2358, 2366, 2360, 2367, 2340, 32,
                   2361, 2376, 2306, 2404>>]
      [] lang # "English" /\ trait = "Extraversion" ->
         \* line 108: (Devanagari text) value (Devanagari text)
         [pre  |-> <<2310, 2346, 32>>,
          post |-> <<37, 32, 2350, 2367, 2354, 2344, 2360, 2366, 2352, 32, 2361, 2376,
                   2306, 2404>>]
      [] lang # "English" /\ trait = "Agreeableness" ->
         \* line 110: (Devanagari text) value (Devanagari text)
         [pre  |-> <<2310, 2346, 32>>,
          post |-> <<37, 32, 2342, 2351, 2366, 2354, 2369, 32, 2324, 2352, 32, 2360, 2361,
                   2351, 2379, 2327, 2368, 32, 2361, 2376, 2306, 2404>>]
      [] lang # "English" /\ trait = "Neuroticism" ->
         \* line 112: (Devanagari text) value (Devanagari text)
         [pre  |-> <<2310, 2346, 2350, 2375, 2306, 32>>,
          post |-> <<37, 32, 2349, 2366, 2357, 2344, 2366, 2340, 2381, 2350, 2325, 32,
                   2330, 2334, 2381, 2330, 2366, 2354, 2340, 2366, 32, 2361, 2376, 2404>>]

\* One pass of the for loop from position i on.  bound says whether the
\* local msg has been assigned; an unknown trait skips every branch, so msg
\* keeps the previous iteration's value, and appending an unassigned msg
\* raises UnboundLocalError.
RECURSIVE ExplainFrom(_, _, _, _, _, _)
ExplainFrom(traits, lang, i, bound, msg, messages) ==
    IF i > Len(traits) THEN [status |-> "ok", value |-> messages]
    ELSE LET trait == traits[i].k
             value == traits[i].v
             known == trait \in TraitNames
             t     == MsgTemplate(lang, trait)
             msg2  == IF known THEN t.pre \o Str(value) \o t.post ELSE msg
         IN  IF ~(known \/ bound)
             THEN [status |-> "UnboundLocalError", value |-> <<>>]
             ELSE ExplainFrom(traits, lang, i + 1, TRUE, msg2, Append(messages, msg2))

generate_explanations(traits, lang) ==
    ExplainFrom(traits, lang, 1, FALSE, <<>>, <<>>)

(***************************************************************************)
(* Role suggestions                                                        *)
(***************************************************************************)
\* line 120: ['Graphic Designer', 'Writer', 'Product Designer', 'Innovation Strategist']
RolesOpenness ==
    << <<71, 114, 97, 112, 104, 105, 99, 32, 68, 101, 115, 105, 103, 110, 101, 114>>,
       <<87, 114, 105, 116, 101, 114>>,
       <<80, 114, 111, 100, 117, 99, 116, 32, 68, 101, 115, 105, 103, 110, 101, 114>>,
       <<73, 110, 110, 111, 118, 97, 116, 105, 111, 110, 32, 83, 116, 114, 97, 116, 101,
       103, 105, 115, 116>> >>
\* line 122: ['Project Manager', 'Data Analyst', 'Quality Assurance', 'Accountant']
RolesConscientiousness ==
    << <<80, 114, 111, 106, 101, 99, 116, 32, 77, 97, 110, 97, 103, 101, 114>>,
       <<68, 97, 116, 97, 32, 65, 110, 97, 108, 121, 115, 116>>,
       <<81, 117, 97, 108, 105, 116, 121, 32, 65, 115, 115, 117, 114, 97, 110, 99, 101>>,
       <<65, 99, 99, 111, 117, 110, 116, 97, 110, 116>> >>
\* line 124: ['Sales Executive', 'HR Manager', 'Public Relations Officer', 'Event Coordinator']
RolesExtraversion ==
    << <<83, 97, 108, 101, 115, 32, 69, 120, 101, 99, 117, 116, 105, 118, 101>>,
       <<72, 82, 32, 77, 97, 110, 97, 103, 101, 114>>,
       <<80, 117, 98, 108, 105, 99, 32, 82, 101, 108, 97, 116, 105, 111, 110, 115, 32, 79,
       102, 102, 105, 99, 101, 114>>,
       <<69, 118, 101, 110, 116, 32, 67, 111, 111, 114, 100, 105, 110, 97, 116, 111, 114>> >>
\* line 126: ['Teacher', 'Psychologist', 'Nurse', 'Social Worker']
RolesAgreeableness ==
    << <<84, 101, 97, 99, 104, 101, 114>>,
       <<80, 115, 121, 99, 104, 111, 108, 111, 103, 105, 115, 116>>,
       <<78, 117, 114, 115, 101>>,
       <<83, 111, 99, 105, 97, 108, 32, 87, 111, 114, 107, 101, 114>> >>
\* line 128: ['Researcher', 'Doctor', 'Engineer', 'Software Developer']
RolesLowNeuroticism ==
    << <<82, 101, 115, 101, 97, 114, 99, 104, 101, 114>>,
       <<68, 111, 99, 116, 111, 114>>,
       <<69, 110, 103, 105, 110, 101, 101, 114>>,
       <<83, 111, 102, 116, 119, 97, 114, 101, 32, 68, 101, 118, 101, 108, 111, 112, 101,
       114>> >>
\* line 130: ['Consultant', 'Generalist', 'Content Creator']
RolesDefault ==
    << <<67, 111, 110, 115, 117, 108, 116, 97, 110, 116>>,
       <<71, 101, 110, 101, 114, 97, 108, 105, 115, 116>>,
       <<67, 111, 110, 116, 101, 110, 116, 32, 67, 114, 101, 97, 116, 111, 114>> >>

\* Mutant: on a tie the last key with the maximal value wins.
DominantTraitLast(traits) ==
    LET i == CHOOSE j \in 1..Len(traits) :
                 /\ \A m \in 1..Len(traits) : traits[m].v <= traits[j].v
                 /\ \A m \in (j + 1)..Len(traits) : traits[m].v < traits[j].v
    IN  traits[i].k

\* max(traits, key=traits.get): the first key, in iteration order, whose
\* value no other key exceeds.
DominantTrait(traits) ==
    LET i == CHOOSE j \in 1..Len(traits) :
                 /\ \A m \in 1..Len(traits) : traits[m].v <= traits[j].v
                 /\ \A m \in 1..(j - 1) : traits[m].v < traits[j].v
    IN  traits[i].k

\* Mutant: the Neuroticism branch tests the trait only, not its score.
suggest_roles_by_identity(traits) ==
    LET dominant_trait == DominantTrait(traits)
    IN  IF dominant_trait = "Openness" THEN RolesOpenness
        ELSE IF dominant_trait = "Conscientiousness" THEN RolesConscientiousness
        ELSE IF dominant_trait = "Extraversion" THEN RolesExtraversion
        ELSE IF dominant_trait = "Agreeableness" THEN RolesAgreeableness
        ELSE IF dominant_trait = "Neuroticism" THEN RolesLowNeuroticism
        ELSE RolesDefault

suggest_roles(traits) ==
    LET dominant_trait == DominantTrait(traits)
    IN  IF dominant_trait = "Openness" THEN RolesOpenness
        ELSE IF dominant_trait = "Conscientiousness" THEN RolesConscientiousness
        ELSE IF dominant_trait = "Extraversion" THEN RolesExtraversion
        ELSE IF dominant_trait = "Agreeableness" THEN RolesAgreeableness
        ELSE IF dominant_trait = "Neuroticism"
                /\ Get(traits, "Neuroticism") < LowNeuroticism THEN RolesLowNeuroticism
        ELSE RolesDefault

(***************************************************************************)
(* Tips                                                                    *)
(***************************************************************************)
\* tips.get(trait, "Be your best self!")
generate_tip(trait) ==
    CASE trait = "Openness" ->
         \* line 135: 'Stay curious and keep exploring new ideas.'
         <<83, 116, 97, 121, 32, 99, 117, 114, 105, 111, 117, 115, 32, 97, 110, 100, 32,
         107, 101, 101, 112, 32, 101, 120, 112, 108, 111, 114, 105, 110, 103, 32, 110, 101,
         119, 32, 105, 100, 101, 97, 115, 46>>
      [] trait = "Conscientiousness" ->
         \* line 136: 'Your discipline can be your superpower.'
         <<89, 111, 117, 114, 32, 100, 105, 115, 99, 105, 112, 108, 105, 110, 101, 32, 99,
         97, 110, 32, 98, 101, 32, 121, 111, 117, 114, 32, 115, 117, 112, 101, 114, 112,
         111, 119, 101, 114, 46>>
      [] trait = "Extraversion" ->
         \* line 137: 'Your energy is contagious! Use it wisely.'
         <<89, 111, 117, 114, 32, 101, 110, 101, 114, 103, 121, 32, 105, 115, 32, 99, 111,
         110, 116, 97, 103, 105, 111, 117, 115, 33, 32, 85, 115, 101, 32, 105, 116, 32,
         119, 105, 115, 101, 108, 121, 46>>
      [] trait = "Agreeableness" ->
         \* line 138: 'Your kindness makes you a great team player.'
         <<89, 111, 117, 114, 32, 107, 105, 110, 100, 110, 101, 115, 115, 32, 109, 97, 107,
         101, 115, 32, 121, 111, 117, 32, 97, 32, 103, 114, 101, 97, 116, 32, 116, 101, 97,
         109, 32, 112, 108, 97, 121, 101, 114, 46>>
      [] trait = "Neuroticism" ->
         \* line 139: 'Practice mindfulness to handle stress effectively.'
         <<80, 114, 97, 99, 116, 105, 99, 101, 32, 109, 105, 110, 100, 102, 117, 108, 110,
         101, 115, 115, 32, 116, 111, 32, 104, 97, 110, 100, 108, 101, 32, 115, 116, 114,
         101, 115, 115, 32, 101, 102, 102, 101, 99, 116, 105, 118, 101, 108, 121, 46>>
      [] OTHER ->
         \* line 141: 'Be your best self!'
         <<66, 101, 32, 121, 111, 117, 114, 32, 98, 101, 115, 116, 32, 115, 101, 108, 102,
         33>>

(***************************************************************************)
(* PDF report                                                              *)
(***************************************************************************)
\* The text of a trait key, for f"{trait}: {score}%" and the CSV header.
KeyText(trait) ==
    CASE trait = "Openness" -> <<79, 112, 101, 110, 110, 101, 115, 115>>
      [] trait = "Conscientiousness" ->
         <<67, 111, 110, 115, 99, 105, 101, 110, 116, 105, 111, 117, 115, 110, 101, 115, 115>>
      [] trait = "Extraversion" ->
         <<69, 120, 116, 114, 97, 118, 101, 114, 115, 105, 111, 110>>
      [] trait = "Agreeableness" ->
         <<65, 103, 114, 101, 101, 97, 98, 108, 101, 110, 101, 115, 115>>
      [] trait = "Neuroticism" -> <<78, 101, 117, 114, 111, 116, 105, 99, 105, 115, 109>>

\* The text of an MBTI code: its four ASCII letters.
MbtiText(mbti) ==
    LET Letter(l) == CASE l = "E" -> 69 [] l = "I" -> 73 [] l = "N" -> 78 [] l = "S" -> 83
                       [] l = "F" -> 70 [] l = "T" -> 84 [] l = "J" -> 74 [] l = "P" -> 80
    IN  [i \in 1..Len(mbti) |-> Letter(mbti[i])]

\* qr_path = f"{name}_qr.png"
QrPath(name) == name \o <<95, 113, 114, 46, 112, 110, 103>>

\* path = f"{name}_personality_report.pdf"
ReportPath(name) ==
    name \o <<95, 112, 101, 114, 115, 111, 110, 97, 108, 105, 116, 121, 95, 114, 101, 112,
              111, 114, 116, 46, 112, 100, 102>>

\* generate_pdf_report: texts are the strings handed to pdf.cell and
\* pdf.multi_cell, in order.  The core font Arial is written in latin-1, so
\* the call fails with an encoding error when a text holds any other
\* character.  today is the text of datetime.now().strftime('%d %B %Y').
generate_pdf_report(name, traits, explanations, roles, quotes, mbti, percent, famous, today) ==
    LET title  == <<80, 101, 114, 115, 111, 110, 97, 108, 105, 116, 121, 32, 77, 105, 120,
                    32, 65, 110, 97, 108, 121, 122, 101, 114, 32, 82, 101, 112, 111, 114,
                    116>>
        header == << title,
                     <<78, 97, 109, 101, 58, 32>> \o name,
                     <<68, 97, 116, 101, 58, 32>> \o today >>
        scores == [i \in 1..Len(traits) |->
                      KeyText(traits[i].k) \o <<58, 32>> \o Str(traits[i].v) \o <<37>>]
        match  == << <<77, 66, 84, 73, 32, 80, 101, 114, 115, 111, 110, 97, 108, 105, 116,
                       121, 58, 32>> \o MbtiText(mbti),
                     <<71, 108, 111, 98, 97, 108, 32, 80, 111, 112, 117, 108, 97, 116, 105,
                       111, 110, 58, 32>> \o percent \o <<37>>,
                     <<70, 97, 109, 111, 117, 115, 32, 80, 101, 114, 115, 111, 110, 97, 108,
                       105, 116, 121, 58, 32>> \o famous >>
        lines  == << <<84, 114, 97, 105, 116, 32, 69, 120, 112, 108, 97, 110, 97, 116, 105,
                       111, 110, 115, 58>> >>
                  \o [i \in 1..Len(explanations) |-> EncodeLatin1Ignore(explanations[i])]
        jobs   == << <<83, 117, 103, 103, 101, 115, 116, 101, 100, 32, 82, 111, 108, 101,
                       115, 58>> >>
                  \o [i \in 1..Len(roles) |-> <<45, 32>> \o EncodeLatin1Ignore(roles[i])]
        advice == << <<84, 105, 112, 115, 32, 38, 32, 81, 117, 111, 116, 101, 115, 58>> >>
                  \o [i \in 1..Len(quotes) |-> <<45, 32>> \o EncodeLatin1Ignore(quotes[i])]
        texts  == header \o scores \o match \o lines \o jobs \o advice
    IN  [ status  |-> IF \A i \in 1..Len(texts) : IsLatin1(texts[i])
                      THEN "ok" ELSE "UnicodeEncodeError",
          texts   |-> texts,
          qr_path |-> QrPath(name),
          path    |-> ReportPath(name) ]

(***************************************************************************)
(* History store                                                           *)
(***************************************************************************)
\* A CSV file is a sequence of lines, a line a sequence of cell texts.
\* history.csv is [exists, lines].
NoFile == [exists |-> FALSE, lines |-> <<>>]

\* The header line pandas writes for the frame {"Name", "Date", **traits}.
HeaderLine(traits) ==
    << <<78, 97, 109, 101>>, <<68, 97, 116, 101>> >>
        \o [i \in 1..Len(traits) |-> KeyText(traits[i].k)]

\* The data line of the frame's single row; stamp is the text of Date.
DataLine(name, stamp, traits) ==
    <<name, stamp>> \o [i \in 1..Len(traits) |-> Str(traits[i].v)]

\* Mutant: the header is written on every call.
save_result_with_header(name, traits, stamp, csv) ==
    [exists |-> TRUE,
     lines  |-> csv.lines \o <<HeaderLine(traits), DataLine(name, stamp, traits)>>]

\* save_result(name, traits) on the file csv.
save_result(name, traits, stamp, csv) ==
    IF csv.exists
    THEN [exists |-> TRUE, lines |-> Append(csv.lines, DataLine(name, stamp, traits))]
    ELSE [exists |-> TRUE, lines |-> <<HeaderLine(traits), DataLine(name, stamp, traits)>>]

\* Mutant: the records come back most recent first.
read_csv_reversed(csv) ==
    LET header == csv.lines[1]
        Row(line) == [ Name   |-> line[1],
                       Date   |-> line[2],
                       scores |-> [i \in 1..(Len(line) - 2) |->
                                      [k |-> header[i + 2], v |-> ParseInt(line[i + 2])]] ]
    IN  Reverse([i \in 1..(Len(csv.lines) - 1) |-> Row(csv.lines[i + 1])])

\* pd.read_csv: the first line names the columns, every other line is one
\* record; the score cells are parsed as integers.
read_csv(csv) ==
    LET header == csv.lines[1]
        Row(line) == [ Name   |-> line[1],
                       Date   |-> line[2],
                       scores |-> [i \in 1..(Len(line) - 2) |->
                                      [k |-> header[i + 2], v |-> ParseInt(line[i + 2])]] ]
    IN  [i \in 1..(Len(csv.lines) - 1) |-> Row(csv.lines[i + 1])]

(***************************************************************************)
(* Inputs                                                                  *)
(***************************************************************************)
\* Names typed into st.text_input: "", " ", "A", "B " and the Devanagari "आ".
Names == { <<>>, <<32>>, <<65>>, <<66, 32>>, <<2310>> }

\* Paragraphs typed into st.text_area: "", " \n" and "I".
Texts == { <<>>, <<32, 10>>, <<73>> }

\* st.radio("Choose Language", ['English', 'Hindi'])
Languages == {"English", "Hindi"}

\* Scores sampled from 0..100: both ends and a window around each threshold.
Scores ==
    {0, 100}
        \cup ((LowNeuroticism - 1 - Spread)..(LowNeuroticism + Spread))
        \cup ((MbtiThreshold - Spread)..(MbtiThreshold + 1 + Spread))

\* Every trait vector over Scores, keys in declared order.
TraitVectors ==
    { [i \in 1..Len(TraitOrder) |-> [k |-> TraitOrder[i], v |-> f[i]]] :
        f \in [1..Len(TraitOrder) -> Scores] }

\* A key outside the fixed trait set.
UnknownTraits == {"Humor"}

\* Trait vectors with one unknown key inserted at any position.
ForeignMappings ==
    { InsertAt(t, p, [k |-> u, v |-> s]) :
        t \in { x \in TraitVectors : \A i \in 1..Len(x) : x[i].v \in {0, 100} },
        p \in 1..(Len(TraitOrder) + 1), u \in UnknownTraits, s \in Scores }

(***************************************************************************)
(* State                                                                   *)
(***************************************************************************)
VARIABLES
    user_name,      \* st.text_input("Enter your name:")
    user_input,     \* st.text_area("Enter a paragraph about yourself:")
    language,       \* sidebar radio
    show_history,   \* sidebar checkbox
    history_csv,    \* the file history.csv
    files,          \* every other file of the working directory: path -> content
    now,            \* datetime.now(), as the number of analyses started so far
    shown,          \* the last script run rendered "Past Predictions"
    history_df,     \* the frame it rendered
    outcome,        \* what the last script run's button handler did
    page,           \* the analysis the last script run rendered
    scorer_calls,   \* calls of predict_personality so far
    traits,         \* argument of a direct call of a trait function
    lang,           \* language argument of such a call
    fn,             \* the function called
    ret             \* its outcome: [status, value]

appVars ==
    <<user_name, user_input, language, show_history, history_csv, files, now, shown,
      history_df, outcome, page, scorer_calls>>

fnVars == <<traits, lang, fn, ret>>

vars == <<appVars, fnVars>>

NoPage == [rendered |-> FALSE]

\* No call has been made / the call returned v.
NoReturn == [status |-> "none", value |-> <<>>]

Returned(v) == [status |-> "ok", value |-> v]

\* The process starts in an empty working directory with empty widgets.
AppInit ==
    /\ user_name = <<>>
    /\ user_input = <<>>
    /\ language = "English"
    /\ show_history = FALSE
    /\ history_csv = NoFile
    /\ files = <<>>
    /\ now = 0
    /\ shown = FALSE
    /\ history_df = <<>>
    /\ outcome = "idle"
    /\ page = NoPage
    /\ scorer_calls = 0

FnIdle ==
    /\ traits = predict_personality(<<>>)
    /\ lang = "English"
    /\ fn = "none"
    /\ ret = NoReturn

Init == AppInit /\ FnIdle

(***************************************************************************)
(* The Streamlit script (one run, top to bottom)                           *)
(***************************************************************************)
\* Lines 214-217: the history block runs before the button handler, so it
\* reads the file as the previous runs left it.
ShowHistory(show) ==
    IF show /\ history_csv.exists
    THEN shown' = TRUE /\ history_df' = read_csv(history_csv)
    ELSE shown' = FALSE /\ history_df' = <<>>

\* A run in which the button is not pressed renders the widgets only.
RunWithoutButton(show) ==
    /\ ShowHistory(show)
    /\ outcome' = "idle"
    /\ page' = NoPage
    /\ UNCHANGED <<history_csv, files, now, scorer_calls>>

\* files with content written at path / with path removed.
WriteFile(fs, path, content) ==
    [p \in DOMAIN fs \cup {path} |-> IF p = path THEN content ELSE fs[p]]

RemoveFile(fs, path) == [p \in DOMAIN fs \ {path} |-> fs[p]]

\* Mutant: the request is rejected only when both fields are blank.
Rejected_when_both(name, text) == strip(text) = <<>> /\ strip(name) = <<>>

\* Lines 220-222: the validation of the button handler.
Rejected(name, text) == strip(text) = <<>> \/ strip(name) = <<>>

\* Lines 224-258: the else branch of the button handler, at clock reading t.
Analyze(t) ==
    LET trait_mix     == predict_personality(user_input)
        explanations  == generate_explanations(trait_mix, language)
        roles         == suggest_roles(trait_mix)
        tips          == [i \in 1..Len(trait_mix) |-> generate_tip(trait_mix[i].k)]
        mbti_type     == map_to_mbti(trait_mix)
        mbti_percent  == mbti_stats(mbti_type)
        famous_person == famous_mbti(mbti_type)
        report        == generate_pdf_report(user_name, trait_mix, explanations.value,
                             roles, tips, mbti_type, mbti_percent, famous_person, Str(t))
        qr            == [kind |-> "png", created |-> t, texts |-> <<user_name>>]
        pdf           == [kind |-> "pdf", created |-> t, texts |-> report.texts]
    IN  /\ scorer_calls' = scorer_calls + 1
        /\ now' = t
        /\ history_csv' = save_result(user_name, trait_mix, Str(t), history_csv)
        /\ page' = [ rendered |-> TRUE, explanations |-> explanations.value,
                     mbti_type |-> mbti_type, mbti_percent |-> mbti_percent,
                     famous_person |-> famous_person, roles |-> roles, tips |-> tips ]
        /\ IF report.status = "ok"
           THEN /\ files' = RemoveFile(WriteFile(WriteFile(files, report.qr_path, qr),
                                                 report.path, pdf), report.qr_path)
                /\ outcome' = "complete"
           ELSE \* The encoding error is raised by the first pdf.cell that gets
                \* the text (fpdf2) or by pdf.output (PyFPDF 1.7); only the
                \* latter has saved the QR image by then.
                /\ \/ files' = files
                   \/ files' = WriteFile(files, report.qr_path, qr)
                /\ outcome' = report.status

\* Lines 220-258: the whole button handler.
Handler ==
    IF Rejected(user_name, user_input)
    THEN /\ outcome' = "warning"
         /\ page' = NoPage
         /\ UNCHANGED <<history_csv, files, now, scorer_calls>>
    ELSE Analyze(now + 1)

(***************************************************************************)
(* Actions: each widget interaction reruns the script                      *)
(***************************************************************************)
EditName(n) ==
    /\ n # user_name
    /\ user_name' = n
    /\ RunWithoutButton(show_history)
    /\ UNCHANGED <<user_input, language, show_history, fnVars>>

EditText(t) ==
    /\ t # user_input
    /\ user_input' = t
    /\ RunWithoutButton(show_history)
    /\ UNCHANGED <<user_name, language, show_history, fnVars>>

ChooseLanguage(l) ==
    /\ l # language
    /\ language' = l
    /\ RunWithoutButton(show_history)
    /\ UNCHANGED <<user_name, user_input, show_history, fnVars>>

ToggleHistory ==
    /\ show_history' = ~show_history
    /\ RunWithoutButton(~show_history)
    /\ UNCHANGED <<user_name, user_input, language, fnVars>>

ClickAnalyze ==
    /\ Rejected(user_name, user_input) \/ now < MaxRuns
    /\ ShowHistory(show_history)
    /\ Handler
    /\ UNCHANGED <<user_name, user_input, language, show_history, fnVars>>

Next ==
    \/ \E n \in Names : EditName(n)
    \/ \E t \in Texts : EditText(t)
    \/ \E l \in Languages : ChooseLanguage(l)
    \/ ToggleHistory
    \/ ClickAnalyze

Spec == Init /\ [][Next]_vars

(***************************************************************************)
(* Direct calls of the trait functions on arbitrary arguments              *)
(***************************************************************************)
FnInit ==
    /\ AppInit
    /\ traits \in TraitVectors \cup ForeignMappings
    /\ lang \in Languages
    /\ fn = "none"
    /\ ret = NoReturn

CallMapToMbti ==
    /\ fn = "none"
    /\ fn' = "map_to_mbti"
    /\ ret' = Returned(map_to_mbti(traits))
    /\ UNCHANGED <<traits, lang, appVars>>

CallSuggestRoles ==
    /\ fn = "none"
    /\ fn' = "suggest_roles"
    /\ ret' = Returned(suggest_roles(traits))
    /\ UNCHANGED <<traits, lang, appVars>>

CallGenerateExplanations ==
    /\ fn = "none"
    /\ fn' = "generate_explanations"
    /\ ret' = generate_explanations(traits, lang)
    /\ UNCHANGED <<traits, lang, appVars>>

FnNext ==
    \/ CallMapToMbti
    \/ CallSuggestRoles
    \/ CallGenerateExplanations

SpecFn == FnInit /\ [][FnNext]_vars

(***************************************************************************)
(* Properties of the trait functions (checked under SpecFn)                *)
(***************************************************************************)
\* The argument is a trait vector: exactly the five keys, in declared order.
IsTraitVector(t) == Keys(t) = TraitOrder

\* t with the score of key replaced by s.
WithScore(t, key, s) ==
    [i \in 1..Len(t) |-> IF t[i].k = key THEN [k |-> key, v |-> s] ELSE t[i]]

SixteenCodes ==
    { <<a, b, c, d>> : a \in {"E", "I"}, b \in {"N", "S"}, c \in {"F", "T"}, d \in {"J", "P"} }

\* C1: for every trait vector, map_to_mbti returns one of the 16 codes, in the
\* axis order E/I, N/S, F/T, J/P; the letters are E, N, F, J exactly when
\* Extraversion, Openness, Agreeableness, Conscientiousness exceed 50 (so a
\* score of exactly 50 gives I, S, T, P), and the Neuroticism score has no
\* influence on the code.
C1_MbtiThresholdRule ==
    (fn = "map_to_mbti" /\ IsTraitVector(traits)) =>
        /\ ret.value \in SixteenCodes
        /\ ret.value[1] = "E" <=> Get(traits, "Extraversion") > 50
        /\ ret.value[1] = "I" <=> Get(traits, "Extraversion") <= 50
        /\ ret.value[2] = "N" <=> Get(traits, "Openness") > 50
        /\ ret.value[2] = "S" <=> Get(traits, "Openness") <= 50
        /\ ret.value[3] = "F" <=> Get(traits, "Agreeableness") > 50
        /\ ret.value[3] = "T" <=> Get(traits, "Agreeableness") <= 50
        /\ ret.value[4] = "J" <=> Get(traits, "Conscientiousness") > 50
        /\ ret.value[4] = "P" <=> Get(traits, "Conscientiousness") <= 50
        /\ \A s \in Scores : map_to_mbti(WithScore(traits, "Neuroticism", s)) = ret.value

\* A call with two scores exactly at 50 and two just above it.
C1_Witness ==
    /\ fn = "map_to_mbti"
    /\ IsTraitVector(traits)
    /\ Get(traits, "Extraversion") = 50
    /\ Get(traits, "Openness") = 51
    /\ Get(traits, "Agreeableness") = 50
    /\ Get(traits, "Conscientiousness") = 51
    /\ ret.value = <<"I", "N", "T", "J">>

\* The largest score of a trait vector, and the first trait of the declared
\* order that has it.
MaxScore(t) == CHOOSE m \in {t[i].v : i \in 1..Len(t)} : \A i \in 1..Len(t) : t[i].v <= m

FirstMaxTrait(t) ==
    TraitOrder[CHOOSE i \in 1..Len(TraitOrder) :
                   /\ Get(t, TraitOrder[i]) = MaxScore(t)
                   /\ \A j \in 1..(i - 1) : Get(t, TraitOrder[j]) # MaxScore(t)]

\* The role lists the fixed table holds for a dominant trait.
RoleListsOf(trait) ==
    CASE trait = "Openness" -> {RolesOpenness}
      [] trait = "Conscientiousness" -> {RolesConscientiousness}
      [] trait = "Extraversion" -> {RolesExtraversion}
      [] trait = "Agreeableness" -> {RolesAgreeableness}
      [] trait = "Neuroticism" -> {RolesLowNeuroticism, RolesDefault}

\* C3: for every trait vector, suggest_roles returns a non-empty list of the
\* fixed table, the one of the trait with the maximum score; on a tie for the
\* maximum it is the list of the tied trait that is first in declared order.
C3_RolesOfFirstMaximum ==
    (fn = "suggest_roles" /\ IsTraitVector(traits)) =>
        /\ ret.value # <<>>
        /\ ret.value \in RoleListsOf(FirstMaxTrait(traits))

\* Openness and Agreeableness tie for the maximum: the Openness list wins.
C3_Witness ==
    /\ fn = "suggest_roles"
    /\ IsTraitVector(traits)
    /\ Get(traits, "Openness") = 100
    /\ Get(traits, "Agreeableness") = 100
    /\ ret.value = RolesOpenness

\* Neuroticism is the selected dominant trait: its score is the maximum and no
\* earlier trait ties with it.
NeuroticismDominant(t) == \A i \in 1..Len(t) : t[i].k # "Neuroticism" => t[i].v < Get(t, "Neuroticism")

\* C10: when Neuroticism is the dominant trait, a score below 40 yields the
\* list [Researcher, Doctor, Engineer, Software Developer] and a score of 40 or
\* more the different list [Consultant, Generalist, Content Creator]; when
\* another trait is dominant, the list is the same whatever the Neuroticism
\* score is.
C10_NeuroticismByScore ==
    (fn = "suggest_roles" /\ IsTraitVector(traits)) =>
        /\ RolesLowNeuroticism # RolesDefault
        /\ (NeuroticismDominant(traits) /\ Get(traits, "Neuroticism") < 40)
               => ret.value = RolesLowNeuroticism
        /\ (NeuroticismDominant(traits) /\ Get(traits, "Neuroticism") >= 40)
               => ret.value = RolesDefault
        /\ ~NeuroticismDominant(traits) =>
               \A s \in Scores :
                   ~NeuroticismDominant(WithScore(traits, "Neuroticism", s))
                       => suggest_roles(WithScore(traits, "Neuroticism", s)) = ret.value

\* A dominant Neuroticism of 39 over four scores of 0.
C10_Witness ==
    /\ fn = "suggest_roles"
    /\ IsTraitVector(traits)
    /\ NeuroticismDominant(traits)
    /\ Get(traits, "Neuroticism") = 39
    /\ ret.value = RolesLowNeuroticism

\* C8: generate_explanations signals an error for every mapping that holds a
\* key outside the fixed trait set, wherever the key stands and whatever the
\* language; it never returns a list of sentences for such a mapping.
C8_UnknownTraitIsAnError ==
    (fn = "generate_explanations" /\ \E i \in 1..Len(traits) : traits[i].k \notin TraitNames)
        => ret.status # "ok"

(***************************************************************************)
(* Properties of the application (checked under Spec)                      *)
(***************************************************************************)
\* A text is empty or holds whitespace only.
IsBlank(s) == \A i \in 1..Len(s) : s[i] \in Whitespace

\* The step is a script run in which the button was pressed.
ButtonRun == outcome' # "idle"

\* C2: a press of "Analyze Personality" with a blank name or a blank
\* self-description only warns: the scorer is not called, history.csv gets no
\* row and no report or QR file is written.
C2_BlankInputRejected ==
    [][(ButtonRun /\ (IsBlank(user_name) \/ IsBlank(user_input))) =>
          /\ outcome' = "warning"
          /\ scorer_calls' = scorer_calls
          /\ history_csv' = history_csv
          /\ files' = files]_vars

\* A rejected press, with a whitespace-only name, after an analysis has left
\* a history file and a report behind.
C2_Witness ==
    /\ outcome = "warning"
    /\ user_name = <<32>>
    /\ ~IsBlank(user_input)
    /\ history_csv.exists
    /\ files # <<>>

\* C4: after N >= 1 calls of save_result on a store that did not exist,
\* history.csv is one header line followed by N data lines in the order of
\* the calls; a later call appends and leaves every earlier line as it was.
C4_HeaderOnceThenRows ==
    /\ [](/\ history_csv.exists <=> now >= 1
          /\ history_csv.exists =>
                /\ Len(history_csv.lines) = 1 + now
                /\ history_csv.lines[1] = HeaderLine(predict_personality(<<>>))
                /\ \A i \in 1..now :
                      /\ history_csv.lines[i + 1] # history_csv.lines[1]
                      /\ history_csv.lines[i + 1][2] = Str(i))
    /\ [][history_csv.exists =>
             /\ history_csv'.exists
             /\ Len(history_csv'.lines) >= Len(history_csv.lines)
             /\ SubSeq(history_csv'.lines, 1, Len(history_csv.lines)) = history_csv.lines]_vars

\* Three calls: the header and three rows.
C4_Witness ==
    /\ now = 3
    /\ history_csv.exists
    /\ Len(history_csv.lines) = 4

\* C5 (as amended): the history block shows exactly the N records written so
\* far, in the order they were appended: the oldest first, the most recent last.
C5_DisplayInAppendOrder ==
    [][shown' =>
          /\ Len(history_df') = now
          /\ \A i \in 1..now :
                /\ history_df'[i].Date = Str(i)
                /\ history_df'[i].scores = [j \in 1..Len(TraitOrder) |->
                       [k |-> KeyText(TraitOrder[j]),
                        v |-> predict_personality(<<>>)[j].v]]]_vars

\* C5 (as claimed): the history block shows the N records most recent first.
C5_DisplayMostRecentFirst ==
    [][shown' =>
          /\ Len(history_df') = now
          /\ \A i \in 1..now : history_df'[i].Date = Str(now + 1 - i)]_vars

\* The history block has rendered two or more records.
C5_Witness ==
    /\ shown
    /\ Len(history_df) >= 2
    /\ history_df[1].Date = Str(1)
    /\ history_df[2].Date = Str(2)

\* C6: no analysis overwrites or removes the report file of an earlier one.
C6_NoReportOverwritten ==
    [][\A p \in DOMAIN files :
          files[p].kind = "pdf" => (p \in DOMAIN files' /\ files'[p] = files[p])]_vars

\* C7: report generation never ends in an encoding failure, whatever
\* characters the name and the other free-text fields hold.
C7_NoEncodingFailure == outcome # "UnicodeEncodeError"

\* C9 (as amended): the pipeline's MBTI code for the scorer's constant vector
\* is ENFJ.
C9_PipelineCodeIsENFJ == page.rendered => page.mbti_type = <<"E", "N", "F", "J">>

\* C9 (as claimed): the pipeline's MBTI code is ISFJ.
C9_PipelineCodeIsISFJ == page.rendered => page.mbti_type = <<"I", "S", "F", "J">>

\* An analysis has run to completion and rendered its MBTI match.
C9_Witness ==
    /\ outcome = "complete"
    /\ page.rendered
    /\ scorer_calls >= 1
=============================================================================
